---- MODULE Spec2Model ----
(***************************************************************************)
(* State-machine model of the sketchpad in src/src/main.ts: the display    *)
(* list / redo stack of Commands, the tool selector, the tool preview, the *)
(* input controller (isDrawing, currentCommand) and the canvas as it was   *)
(* last painted by render().                                               *)
(*                                                                         *)
(* Commands are JavaScript objects with identity and closure state.  They  *)
(* are modelled as references (1, 2, ...) into `heap`, which maps each     *)
(* reference to the closure variables of the object.  An object that no    *)
(* reference reaches any more (displayList, redoStack and currentCommand   *)
(* are the only holders) is reclaimed by the runtime: its heap entry       *)
(* becomes Collected.                                                      *)
(***************************************************************************)
EXTENDS Integers, Sequences, FiniteSets

VARIABLES
    displayList,     \* const displayList: Command[]   (references, index 1 = oldest)
    redoStack,       \* const redoStack: Command[]     (references, last = top)
    currentCommand,  \* let currentCommand: Command | null
    currentTool,     \* let currentTool: Tool
    preview,         \* let preview: ToolPreview | null
    isDrawing,       \* let isDrawing
    heap,            \* closure state of every Command object, by reference
    nextId,          \* reference the next created Command will get
    undoDisabled,    \* undoButton.disabled
    redoDisabled,    \* redoButton.disabled
    frame,           \* what the canvas shows: the draw calls of the last render()
    lastEvent,       \* history: the DOM event whose listener ran last
    prev,            \* history: what that listener found when it started
    strokeEnded,     \* history: a mouseup ended a drag, no mousedown since
    trip             \* history: the run of undo clicks then redo clicks in progress

vars == <<displayList, redoStack, currentCommand, currentTool, preview, isDrawing,
          heap, nextId, undoDisabled, redoDisabled, frame, lastEvent, prev,
          strokeEnded, trip>>

(************************* bounds of the model *****************************)
\* Commands created in one behaviour (mousedown events).
MaxCmds == 2
\* Points the live strokes hold together; a drag that would store one more is
\* not taken.
MaxPts == 2

\* Pointer coordinates the events carry (offsetX, offsetY).
P1 == [x |-> 10, y |-> 10]
P2 == [x |-> 20, y |-> 10]
Points == {P1, P2}

(***************************** program data ********************************)
NULL == 0
NoPos == [x |-> -1, y |-> -1]

DefaultColor == "#00449f"

THIN == [kind |-> "marker", label |-> "Thin", thickness |-> 2]
THICK == [kind |-> "marker", label |-> "Thick", thickness |-> 6]
STAR == [kind |-> "sticker", label |-> "star", emoji |-> "star", size |-> 28]
HEART == [kind |-> "sticker", label |-> "heart", emoji |-> "heart", size |-> 28]
FIRE == [kind |-> "sticker", label |-> "fire", emoji |-> "fire", size |-> 28]

\* The tools the tool buttons select.  The three sticker tools differ only in
\* the emoji, so one of them is drawn here.
Tools == {THIN, THICK, STAR}

Max(a, b) == IF a >= b THEN a ELSE b

(******************************* Commands **********************************)
\* Mutant of createMarkerLine: the thickness argument is ignored (fixed width).
createMarkerLine_fixedWidth(start, thickness) ==
    [kind |-> "marker", points |-> <<start>>, thickness |-> 2,
     color |-> DefaultColor]

createMarkerLine(start, thickness) ==
    [kind |-> "marker", points |-> <<start>>, thickness |-> thickness,
     color |-> DefaultColor]

createStickerCommand(emoji, start, size) ==
    [kind |-> "sticker", pos |-> start, emoji |-> emoji,
     fontSize |-> Max(12, size)]

\* Mutant of drag: a stroke puts the new point in front (unshift for push).
drag_prepend(cmd, p) ==
    IF cmd.kind = "marker"
    THEN [cmd EXCEPT !.points = <<p>> \o @]
    ELSE [cmd EXCEPT !.pos = p]

\* Mutant of drag: a sticker has no drag method and stays where it was placed.
drag_stickerStays(cmd, p) ==
    IF cmd.kind = "marker"
    THEN [cmd EXCEPT !.points = Append(@, p)]
    ELSE cmd

\* cmd.drag?.(x, y): a stroke appends the point, a sticker overwrites its position.
drag(cmd, p) ==
    IF cmd.kind = "marker"
    THEN [cmd EXCEPT !.points = Append(@, p)]
    ELSE [cmd EXCEPT !.pos = p]

\* cmd.display(ctx): the draw calls it issues (none for an empty stroke).
display(cmd) ==
    IF cmd.kind = "marker"
    THEN IF Len(cmd.points) = 0
         THEN <<>>
         ELSE << [op |-> "stroke", path |-> cmd.points, lineWidth |-> cmd.thickness,
                  strokeStyle |-> cmd.color] >>
    ELSE << [op |-> "fillText", text |-> cmd.emoji, at |-> cmd.pos,
             font |-> cmd.fontSize, alpha |-> 100] >>

(******************************* Previews **********************************)
NoPreview == [kind |-> "null"]

createMarkerPreview(thickness) ==
    [kind |-> "marker", pos |-> NoPos, r |-> Max(1, thickness \div 2),
     color |-> DefaultColor]

createStickerPreview(emoji, size) ==
    [kind |-> "sticker", pos |-> NoPos, emoji |-> emoji, fontSize |-> Max(12, size)]

\* Mutant of makePreviewForTool: only markers have a preview of their own, a
\* sticker tool gets the thin marker's circle.
makePreviewForTool_markerOnly(tool) ==
    IF tool.kind = "marker"
    THEN createMarkerPreview(tool.thickness)
    ELSE createMarkerPreview(2)

makePreviewForTool(tool) ==
    IF tool.kind = "marker"
    THEN createMarkerPreview(tool.thickness)
    ELSE createStickerPreview(tool.emoji, tool.size)

moveTo(pv, p) == [pv EXCEPT !.pos = p]

\* preview.draw(ctx): nothing until a position has been recorded.
draw(pv) ==
    IF pv.pos = NoPos
    THEN <<>>
    ELSE IF pv.kind = "marker"
         THEN << [op |-> "arc", at |-> pv.pos, radius |-> pv.r,
                  strokeStyle |-> pv.color] >>
         ELSE << [op |-> "fillText", text |-> pv.emoji, at |-> pv.pos,
                  font |-> pv.fontSize, alpha |-> 65] >>

(******************************** render ***********************************)
RECURSIVE paintAll(_, _)
paintAll(dl, h) ==
    IF dl = <<>> THEN <<>> ELSE display(h[Head(dl)]) \o paintAll(Tail(dl), h)

\* Mutant of render: the preview is painted in the Drawing state too.
render_noSuppress(dl, h, drawing, pv) ==
    [marks |-> paintAll(dl, h),
     ghost |-> IF pv # NoPreview THEN draw(pv) ELSE <<>>]

\* render(): clearRect, every command of the display list in order, then the
\* preview only when not drawing.
render(dl, h, drawing, pv) ==
    [marks |-> paintAll(dl, h),
     ghost |-> IF ~drawing /\ pv # NoPreview THEN draw(pv) ELSE <<>>]

(**************************** undo / redo **********************************)
\* Mutant of undo: the popped Command is not pushed on the Redo Stack.
undo_drop(dl, rs) ==
    IF Len(dl) = 0
    THEN <<dl, rs>>
    ELSE <<SubSeq(dl, 1, Len(dl) - 1), rs>>

\* Mutant of undo: takes the oldest Command (shift for pop).
undo_shift(dl, rs) ==
    IF Len(dl) = 0
    THEN <<dl, rs>>
    ELSE <<Tail(dl), Append(rs, Head(dl))>>

\* Mutant of redo: puts the Command back at the front (unshift for push).
redo_front(dl, rs) ==
    IF Len(rs) = 0
    THEN <<dl, rs>>
    ELSE << <<rs[Len(rs)]>> \o dl, SubSeq(rs, 1, Len(rs) - 1)>>

\* Mutant of redo: takes the bottom of the Redo Stack (shift for pop).
redo_shift(dl, rs) ==
    IF Len(rs) = 0
    THEN <<dl, rs>>
    ELSE <<Append(dl, Head(rs)), Tail(rs)>>

\* The array effect of undo() and redo() on <<displayList, redoStack>>.
undo(dl, rs) ==
    IF Len(dl) = 0
    THEN <<dl, rs>>
    ELSE <<SubSeq(dl, 1, Len(dl) - 1), Append(rs, dl[Len(dl)])>>

redo(dl, rs) ==
    IF Len(rs) = 0
    THEN <<dl, rs>>
    ELSE <<Append(dl, rs[Len(rs)]), SubSeq(rs, 1, Len(rs) - 1)>>

(********************************* heap ************************************)
Collected == [kind |-> "collected"]

Range(q) == {q[i] : i \in 1..Len(q)}

\* The heap once the objects that displayList, redoStack and currentCommand no
\* longer reach are reclaimed.
collect(h, dl, rs, cc) ==
    [i \in 1..Len(h) |->
        IF i \in Range(dl) \cup Range(rs) \cup {cc} THEN h[i] ELSE Collected]

\* Points held by the live strokes.
RECURSIVE storedPoints(_)
storedPoints(h) ==
    IF h = <<>>
    THEN 0
    ELSE (IF Head(h).kind = "marker" THEN Len(Head(h).points) ELSE 0)
         + storedPoints(Tail(h))

(************************ history (observation) ****************************)
\* The position the preview tracks, NoPos when there is no preview or no position.
previewPos == IF preview = NoPreview THEN NoPos ELSE preview.pos

\* lastEvent and prev record the event a listener handles and the state it starts in.
Observe(ev) ==
    /\ lastEvent' = ev
    /\ prev' = [isDrawing |-> isDrawing, displayList |-> displayList,
                redoStack |-> redoStack, pos |-> previewPos]

\* trip follows a run of effective undo clicks immediately followed by redo
\* clicks: trail holds <<displayList, redoStack>> as it was before each undo not
\* yet redone, expect what the last redo has to restore, redos the redo clicks.
NoTrip == [trail |-> <<>>, expect |-> <<>>, redos |-> 0]

TripUndo ==
    IF trip.trail # <<>> /\ trip.expect = <<>>
    THEN [trip EXCEPT !.trail = Append(@, <<displayList, redoStack>>)]
    ELSE [trail |-> << <<displayList, redoStack>> >>, expect |-> <<>>, redos |-> 0]

TripRedo ==
    IF trip.trail # <<>>
    THEN [trail |-> SubSeq(trip.trail, 1, Len(trip.trail) - 1),
          expect |-> trip.trail[Len(trip.trail)],
          redos |-> trip.redos + 1]
    ELSE NoTrip

(******************************** Init *************************************)
Init ==
    /\ displayList = <<>>
    /\ redoStack = <<>>
    /\ currentCommand = NULL
    /\ currentTool = THIN
    /\ preview = makePreviewForTool(THIN)
    /\ isDrawing = FALSE
    /\ heap = <<>>
    /\ nextId = 1
    /\ undoDisabled = TRUE
    /\ redoDisabled = TRUE
    /\ frame = render(<<>>, <<>>, FALSE, makePreviewForTool(THIN))
    /\ lastEvent = [type |-> "load"]
    /\ prev = [isDrawing |-> FALSE, displayList |-> <<>>, redoStack |-> <<>>,
               pos |-> NoPos]
    /\ strokeEnded = FALSE
    /\ trip = NoTrip

(******************************* listeners *********************************)
\* Mutant of updateButtonState: each button follows the other array.
updateButtonState_swapped ==
    /\ undoDisabled' = (Len(redoStack') = 0)
    /\ redoDisabled' = (Len(displayList') = 0)

\* updateButtonState()
updateButtonState ==
    /\ undoDisabled' = (Len(displayList') = 0)
    /\ redoDisabled' = (Len(redoStack') = 0)

\* notifyDrawingChanged(): render() through the drawing-changed event, then
\* updateButtonState().
notifyDrawingChanged ==
    /\ frame' = render(displayList', heap', isDrawing', preview')
    /\ updateButtonState

\* notifyToolMoved(): render() through the tool-moved event.
notifyToolMoved ==
    /\ frame' = render(displayList', heap', isDrawing', preview')
    /\ UNCHANGED <<undoDisabled, redoDisabled>>

\* Mutant of MouseDown: the redo history is not invalidated.
MouseDown_keepRedo(p) ==
    /\ nextId <= MaxCmds
    /\ Observe([type |-> "mousedown", pos |-> p])
    /\ strokeEnded' = FALSE
    /\ trip' = NoTrip
    /\ isDrawing' = TRUE
    /\ heap' = collect(Append(heap,
                              IF currentTool.kind = "marker"
                              THEN createMarkerLine(p, currentTool.thickness)
                              ELSE createStickerCommand(currentTool.emoji, p,
                                                        currentTool.size)),
                       Append(displayList, nextId), redoStack, nextId)
    /\ currentCommand' = nextId
    /\ nextId' = nextId + 1
    /\ displayList' = Append(displayList, nextId)
    /\ UNCHANGED <<redoStack, currentTool, preview>>
    /\ notifyDrawingChanged

\* canvas "mousedown" listener
MouseDown(p) ==
    /\ nextId <= MaxCmds
    /\ Observe([type |-> "mousedown", pos |-> p])
    /\ strokeEnded' = FALSE
    /\ trip' = NoTrip
    /\ isDrawing' = TRUE
    /\ redoStack' = <<>>
    /\ heap' = collect(Append(heap,
                              IF currentTool.kind = "marker"
                              THEN createMarkerLine(p, currentTool.thickness)
                              ELSE createStickerCommand(currentTool.emoji, p,
                                                        currentTool.size)),
                       Append(displayList, nextId), <<>>, nextId)
    /\ currentCommand' = nextId
    /\ nextId' = nextId + 1
    /\ displayList' = Append(displayList, nextId)
    /\ UNCHANGED <<currentTool, preview>>
    /\ notifyDrawingChanged

\* Mutant of MouseMove: while drawing, the tail of the Display List is dragged
\* instead of the Current Command.
MouseMove_dragsTail(p) ==
    /\ Observe([type |-> "mousemove", pos |-> p])
    /\ trip' = NoTrip
    /\ UNCHANGED <<displayList, redoStack, currentCommand, currentTool, isDrawing,
                   nextId, strokeEnded>>
    /\ IF isDrawing
       THEN IF displayList # <<>>
            THEN /\ heap[displayList[Len(displayList)]].kind = "marker"
                    => storedPoints(heap) < MaxPts
                 /\ heap' = [heap EXCEPT ![displayList[Len(displayList)]] = drag(@, p)]
                 /\ UNCHANGED preview
                 /\ notifyDrawingChanged
            ELSE UNCHANGED <<preview, heap, undoDisabled, redoDisabled, frame>>
       ELSE /\ preview' = moveTo(IF preview = NoPreview
                                 THEN makePreviewForTool(currentTool)
                                 ELSE preview, p)
            /\ UNCHANGED heap
            /\ notifyToolMoved

\* canvas "mousemove" listener
MouseMove(p) ==
    /\ Observe([type |-> "mousemove", pos |-> p])
    /\ trip' = NoTrip
    /\ UNCHANGED <<displayList, redoStack, currentCommand, currentTool, isDrawing,
                   nextId, strokeEnded>>
    /\ IF isDrawing
       THEN IF currentCommand # NULL
            THEN /\ heap[currentCommand].kind = "marker" => storedPoints(heap) < MaxPts
                 /\ heap' = [heap EXCEPT ![currentCommand] = drag(@, p)]
                 /\ UNCHANGED preview
                 /\ notifyDrawingChanged
            ELSE UNCHANGED <<preview, heap, undoDisabled, redoDisabled, frame>>
       ELSE /\ preview' = moveTo(IF preview = NoPreview
                                 THEN makePreviewForTool(currentTool)
                                 ELSE preview, p)
            /\ UNCHANGED heap
            /\ notifyToolMoved

\* Mutant of endStroke: every mouseup also drops the preview and repaints, as
\* the "mouseleave" listener does.
endStroke_dropsPreview ==
    /\ Observe([type |-> "mouseup"])
    /\ trip' = NoTrip
    /\ IF ~isDrawing
       THEN UNCHANGED <<isDrawing, currentCommand, strokeEnded, heap>>
       ELSE /\ isDrawing' = FALSE
            /\ currentCommand' = NULL
            /\ strokeEnded' = TRUE
            /\ heap' = collect(heap, displayList, redoStack, NULL)
    /\ preview' = NoPreview
    /\ UNCHANGED <<displayList, redoStack, currentTool, nextId>>
    /\ notifyToolMoved

\* endStroke(), the canvas "mouseup" listener
endStroke ==
    /\ Observe([type |-> "mouseup"])
    /\ trip' = NoTrip
    /\ IF ~isDrawing
       THEN UNCHANGED <<isDrawing, currentCommand, strokeEnded, heap>>
       ELSE /\ isDrawing' = FALSE
            /\ currentCommand' = NULL
            /\ strokeEnded' = TRUE
            /\ heap' = collect(heap, displayList, redoStack, NULL)
    /\ UNCHANGED <<displayList, redoStack, currentTool, preview, nextId,
                   undoDisabled, redoDisabled, frame>>

\* Mutant of MouseLeave: the preview is kept when the cursor leaves.
MouseLeave_keepPreview ==
    /\ Observe([type |-> "mouseleave"])
    /\ trip' = NoTrip
    /\ UNCHANGED <<displayList, redoStack, currentCommand, currentTool, isDrawing,
                   heap, nextId, strokeEnded, preview>>
    /\ notifyToolMoved

\* canvas "mouseleave" listener
MouseLeave ==
    /\ Observe([type |-> "mouseleave"])
    /\ trip' = NoTrip
    /\ preview' = NoPreview
    /\ UNCHANGED <<displayList, redoStack, currentCommand, currentTool, isDrawing,
                   heap, nextId, strokeEnded>>
    /\ notifyToolMoved

\* Mutant of ClearClick: only the Display List is emptied.
ClearClick_keepRedo ==
    /\ Observe([type |-> "clear"])
    /\ trip' = NoTrip
    /\ displayList' = <<>>
    /\ heap' = collect(heap, <<>>, redoStack, currentCommand)
    /\ UNCHANGED <<redoStack, currentCommand, currentTool, preview, isDrawing,
                   nextId, strokeEnded>>
    /\ notifyDrawingChanged

\* clearButton "click" listener
ClearClick ==
    /\ Observe([type |-> "clear"])
    /\ trip' = NoTrip
    /\ displayList' = <<>>
    /\ redoStack' = <<>>
    /\ heap' = collect(heap, <<>>, <<>>, currentCommand)
    /\ UNCHANGED <<currentCommand, currentTool, preview, isDrawing, nextId,
                   strokeEnded>>
    /\ notifyDrawingChanged

\* Mutant of UndoClick: no early return; pop() of the empty array yields
\* undefined, which is pushed on the Redo Stack.
UndoClick_noReturn ==
    /\ Observe([type |-> "undo"])
    /\ UNCHANGED <<currentCommand, currentTool, preview, isDrawing, heap, nextId,
                   strokeEnded>>
    /\ IF Len(displayList) = 0
       THEN /\ trip' = NoTrip
            /\ displayList' = displayList
            /\ redoStack' = Append(redoStack, NULL)
            /\ frame' = frame
            /\ updateButtonState
       ELSE /\ trip' = TripUndo
            /\ displayList' = undo(displayList, redoStack)[1]
            /\ redoStack' = undo(displayList, redoStack)[2]
            /\ notifyDrawingChanged

\* undo(), the undoButton "click" listener
UndoClick ==
    /\ Observe([type |-> "undo"])
    /\ UNCHANGED <<currentCommand, currentTool, preview, isDrawing, heap, nextId,
                   strokeEnded>>
    /\ IF Len(displayList) = 0
       THEN /\ trip' = NoTrip
            /\ UNCHANGED <<displayList, redoStack, undoDisabled, redoDisabled, frame>>
       ELSE /\ trip' = TripUndo
            /\ displayList' = undo(displayList, redoStack)[1]
            /\ redoStack' = undo(displayList, redoStack)[2]
            /\ notifyDrawingChanged

\* Mutant of RedoClick: redo() forgets to notify, only the buttons are updated.
RedoClick_noRender ==
    /\ Observe([type |-> "redo"])
    /\ UNCHANGED <<currentCommand, currentTool, preview, isDrawing, heap, nextId,
                   strokeEnded>>
    /\ IF Len(redoStack) = 0
       THEN /\ trip' = NoTrip
            /\ UNCHANGED <<displayList, redoStack, undoDisabled, redoDisabled, frame>>
       ELSE /\ trip' = TripRedo
            /\ displayList' = redo(displayList, redoStack)[1]
            /\ redoStack' = redo(displayList, redoStack)[2]
            /\ frame' = frame
            /\ updateButtonState

\* redo(), the redoButton "click" listener
RedoClick ==
    /\ Observe([type |-> "redo"])
    /\ UNCHANGED <<currentCommand, currentTool, preview, isDrawing, heap, nextId,
                   strokeEnded>>
    /\ IF Len(redoStack) = 0
       THEN /\ trip' = NoTrip
            /\ UNCHANGED <<displayList, redoStack, undoDisabled, redoDisabled, frame>>
       ELSE /\ trip' = TripRedo
            /\ displayList' = redo(displayList, redoStack)[1]
            /\ redoStack' = redo(displayList, redoStack)[2]
            /\ notifyDrawingChanged

\* Mutant of selectTool: choosing a tool also ends the stroke in progress.
selectTool_endsStroke(tool) ==
    /\ Observe([type |-> "selectTool"])
    /\ trip' = NoTrip
    /\ currentTool' = tool
    /\ preview' = makePreviewForTool(tool)
    /\ isDrawing' = FALSE
    /\ currentCommand' = NULL
    /\ heap' = collect(heap, displayList, redoStack, NULL)
    /\ UNCHANGED <<displayList, redoStack, nextId, strokeEnded>>
    /\ notifyToolMoved

\* Mutant of selectTool: the preview is not rebuilt for the new tool.
selectTool_keepPreview(tool) ==
    /\ Observe([type |-> "selectTool"])
    /\ trip' = NoTrip
    /\ currentTool' = tool
    /\ UNCHANGED <<displayList, redoStack, currentCommand, isDrawing, heap, nextId,
                   strokeEnded, preview>>
    /\ notifyToolMoved

\* selectTool(tool), called by the tool buttons' "click" listeners
selectTool(tool) ==
    /\ Observe([type |-> "selectTool"])
    /\ trip' = NoTrip
    /\ currentTool' = tool
    /\ preview' = makePreviewForTool(tool)
    /\ UNCHANGED <<displayList, redoStack, currentCommand, isDrawing, heap, nextId,
                   strokeEnded>>
    /\ notifyToolMoved

Next ==
    \/ \E p \in Points : MouseDown(p)
    \/ \E p \in Points : MouseMove(p)
    \/ endStroke
    \/ MouseLeave
    \/ ClearClick
    \/ UndoClick
    \/ RedoClick
    \/ \E tool \in Tools : selectTool(tool)

Spec == Init /\ [][Next]_vars

(***************************************************************************)
(*                               Properties                                *)
(***************************************************************************)
Last(q) == q[Len(q)]
Front(q) == SubSeq(q, 1, Len(q) - 1)

\* The draw call a ghost of `tool` at p consists of: a circle of radius
\* thickness/2 (at least 1) for a marker, the translucent emoji for a sticker.
GhostOf(tool, p) ==
    IF tool.kind = "marker"
    THEN << [op |-> "arc", at |-> p,
             radius |-> IF tool.thickness \div 2 < 1 THEN 1 ELSE tool.thickness \div 2,
             strokeStyle |-> "#00449f"] >>
    ELSE << [op |-> "fillText", text |-> tool.emoji, at |-> p,
             font |-> IF tool.size < 12 THEN 12 ELSE tool.size, alpha |-> 65] >>

\* C1: with a non-empty Display List, undo() shortens the Display List by exactly
\* one, keeps the remaining prefix, and the removed tail Command becomes the top
\* of the Redo Stack, whose older entries are unchanged.
C1_UndoMovesTail ==
    (lastEvent.type = "undo" /\ Len(prev.displayList) > 0) =>
        /\ Len(displayList) = Len(prev.displayList) - 1
        /\ displayList = Front(prev.displayList)
        /\ Len(redoStack) = Len(prev.redoStack) + 1
        /\ Last(redoStack) = Last(prev.displayList)
        /\ Front(redoStack) = prev.redoStack

\* An undo has moved a Command onto a Redo Stack that already held one.
C1_Witness ==
    /\ lastEvent.type = "undo"
    /\ Len(prev.displayList) > 0
    /\ Len(prev.redoStack) > 0

\* C2: k undo() calls immediately followed by k redo() calls (k at most the
\* Display List length) restore the Display List and the Redo Stack to exactly
\* the references they held, in the same order.
C2_UndoRedoRoundTrip ==
    trip.expect # <<>> => <<displayList, redoStack>> = trip.expect

\* Two undos immediately followed by two redos have run.
C2_Witness ==
    /\ trip.redos = 2
    /\ trip.trail = <<>>
    /\ Len(displayList) >= 2

\* C3: every pointer-down leaves the Redo Stack empty, whatever it held and
\* whether the controller was Idle or Drawing; the Redo Stack then stays empty,
\* and redo() changes neither list, until the next undo().
C3_PointerDownClearsRedo ==
    [][ /\ lastEvent'.type = "mousedown" => redoStack' = <<>>
        /\ (redoStack = <<>> /\ lastEvent'.type # "undo") =>
               /\ redoStack' = <<>>
               /\ lastEvent'.type = "redo" => displayList' = displayList ]_vars

\* A pointer-down in the Drawing state found a non-empty Redo Stack.
C3_Witness ==
    /\ lastEvent.type = "mousedown"
    /\ prev.redoStack # <<>>
    /\ prev.isDrawing

\* C4: clear() leaves the Display List and the Redo Stack empty from every
\* reachable state, also in the middle of a drag.
C4_ClearEmptiesBoth ==
    lastEvent.type = "clear" => (displayList = <<>> /\ redoStack = <<>>)

\* clear() ran in the middle of a drag with both lists non-empty.
C4_Witness ==
    /\ lastEvent.type = "clear"
    /\ prev.isDrawing
    /\ prev.displayList # <<>>
    /\ prev.redoStack # <<>>

\* C5: undo() with an empty Display List and redo() with an empty Redo Stack
\* leave the Display List, the Redo Stack, the Current Command, the Idle/Drawing
\* state, the tool, the Preview and the button flags unchanged.
C5_EmptyUndoRedoNoOp ==
    [][ ( \/ (lastEvent'.type = "undo" /\ displayList = <<>>)
          \/ (lastEvent'.type = "redo" /\ redoStack = <<>>) )
        => UNCHANGED <<displayList, redoStack, currentCommand, isDrawing,
                       currentTool, preview, undoDisabled, redoDisabled>> ]_vars

\* undo() ran on an empty Display List while the Redo Stack was not empty.
C5_Witness ==
    /\ lastEvent.type = "undo"
    /\ prev.displayList = <<>>
    /\ prev.redoStack # <<>>

\* C6: while the controller is Drawing, the most recently painted frame holds no
\* Preview ghost, even when a Preview object with a position exists.
C6_NoGhostWhileDrawing ==
    isDrawing => frame.ghost = <<>>

\* A repaint other than the pointer-down's happened while Drawing, with a
\* positioned Preview in existence.
C6_Witness ==
    /\ isDrawing
    /\ previewPos # NoPos
    /\ lastEvent.type \in {"mousemove", "undo", "redo", "clear"}

\* C7: after a pointer-up that ended a drag, and until the next pointer-down, a
\* pointer-move paints a frame that holds the Preview of the currently selected
\* tool at that move's coordinates.
C7_PreviewBackAfterStroke ==
    (strokeEnded /\ lastEvent.type = "mousemove") =>
        frame.ghost = GhostOf(currentTool, lastEvent.pos)

\* A pointer-move after the end of a drag, with a tool other than the initial
\* one selected.
C7_Witness ==
    /\ strokeEnded
    /\ lastEvent.type = "mousemove"
    /\ currentTool.kind = "sticker"
    /\ frame.ghost # <<>>

\* C8: a pointer-leave in the Drawing state moves the controller to Idle and
\* drops the Current Command, as pointer-up does, while the Command stays in the
\* Display List.
C8_LeaveEndsDrag ==
    (lastEvent.type = "mouseleave" /\ prev.isDrawing) =>
        /\ ~isDrawing
        /\ currentCommand = NULL
        /\ displayList = prev.displayList

\* C9: selecting a tool while Idle, with a Preview position recorded, repaints
\* with the ghost of the newly selected tool, without a pointer-move.
C9_SelectToolShowsGhost ==
    (lastEvent.type = "selectTool" /\ ~isDrawing /\ prev.pos # NoPos) =>
        frame.ghost = GhostOf(currentTool, prev.pos)

\* C10: a Stroke Command created by a pointer-down at p0 starts as <<p0>> with
\* the thickness of the tool selected at that moment; as long as it stays the
\* Current Command each pointer-move appends its point, and nothing else changes
\* its points or its thickness.
C10_StrokeAppendsInOrder ==
    [][ /\ (lastEvent'.type = "mousedown" /\ currentTool.kind = "marker") =>
               /\ heap'[currentCommand'].kind = "marker"
               /\ heap'[currentCommand'].points = <<lastEvent'.pos>>
               /\ heap'[currentCommand'].thickness = currentTool.thickness
        /\ ( /\ currentCommand # NULL
              /\ currentCommand' = currentCommand
              /\ heap[currentCommand].kind = "marker" ) =>
               IF lastEvent'.type = "mousemove"
               THEN /\ heap'[currentCommand].points =
                           Append(heap[currentCommand].points, lastEvent'.pos)
                    /\ heap'[currentCommand].thickness = heap[currentCommand].thickness
               ELSE heap'[currentCommand] = heap[currentCommand] ]_vars

\* A stroke has been dragged to a second, different point after another tool
\* was selected.
C10_Witness ==
    /\ lastEvent.type = "mousemove"
    /\ currentCommand # NULL
    /\ heap[currentCommand].kind = "marker"
    /\ Len(heap[currentCommand].points) = 2
    /\ heap[currentCommand].points[1] # heap[currentCommand].points[2]
    /\ currentTool.kind = "marker"
    /\ currentTool.thickness # heap[currentCommand].thickness

\* C11: a Sticker Command created by a pointer-down at p0 starts at p0 with the
\* emoji and size of the selected tool; as long as it stays the Current Command
\* each pointer-move overwrites its position with the move's point, nothing else
\* changes it, and its glyph and size never change while it exists.
C11_StickerOverwritesPosition ==
    [][ /\ (lastEvent'.type = "mousedown" /\ currentTool.kind = "sticker") =>
               /\ heap'[currentCommand'].kind = "sticker"
               /\ heap'[currentCommand'].pos = lastEvent'.pos
               /\ heap'[currentCommand'].emoji = currentTool.emoji
               /\ heap'[currentCommand'].fontSize = currentTool.size
        /\ ( /\ currentCommand # NULL
             /\ currentCommand' = currentCommand
             /\ heap[currentCommand].kind = "sticker" ) =>
               IF lastEvent'.type = "mousemove"
               THEN heap'[currentCommand].pos = lastEvent'.pos
               ELSE heap'[currentCommand] = heap[currentCommand]
        /\ \A i \in 1..Len(heap) :
               (heap[i].kind = "sticker" /\ heap'[i] # Collected) =>
                   /\ heap'[i].kind = "sticker"
                   /\ heap'[i].emoji = heap[i].emoji
                   /\ heap'[i].fontSize = heap[i].fontSize ]_vars

\* A sticker has been dragged to the point of the last pointer-move while it
\* was the Current Command, after a marker tool was selected.
C11_Witness ==
    /\ lastEvent.type = "mousemove"
    /\ currentCommand # NULL
    /\ heap[currentCommand].kind = "sticker"
    /\ heap[currentCommand].pos = P2
    /\ frame.marks # <<>>
    /\ currentTool.kind = "marker"

\* C12: after every listener, the Undo control is enabled exactly when the
\* Display List is non-empty and the Redo control exactly when the Redo Stack
\* is non-empty.
C12_ButtonsFollowLists ==
    /\ undoDisabled <=> (displayList = <<>>)
    /\ redoDisabled <=> (redoStack = <<>>)

\* An undo emptied the Display List: Undo is disabled and Redo enabled.
C12_Witness ==
    /\ lastEvent.type = "undo"
    /\ prev.displayList # <<>>
    /\ displayList = <<>>
    /\ undoDisabled
    /\ ~redoDisabled

\* C13: the Current Command is null exactly when the controller is Idle, and a
\* non-null Current Command is the tail element of the Display List, also after
\* undo(), redo() or clear() in the middle of a drag.
C13_CurrentIsTail ==
    /\ (currentCommand = NULL) <=> ~isDrawing
    /\ currentCommand # NULL =>
           (displayList # <<>> /\ Last(displayList) = currentCommand)

\* C14: a pointer-down appends exactly one new Command at the tail of the
\* Display List, of the variant and with the parameters of the selected tool and
\* starting at the pointer position, and leaves the controller Drawing with that
\* Command as Current Command.
C14_PointerDownCommits ==
    lastEvent.type = "mousedown" =>
        /\ isDrawing
        /\ currentCommand # NULL
        /\ currentCommand \notin Range(prev.displayList) \cup Range(prev.redoStack)
        /\ displayList = Append(prev.displayList, currentCommand)
        /\ heap[currentCommand].kind = currentTool.kind
        /\ IF currentTool.kind = "marker"
           THEN /\ heap[currentCommand].points = <<lastEvent.pos>>
                /\ heap[currentCommand].thickness = currentTool.thickness
           ELSE /\ heap[currentCommand].pos = lastEvent.pos
                /\ heap[currentCommand].emoji = currentTool.emoji
                /\ heap[currentCommand].fontSize = currentTool.size

\* A pointer-down with the thick marker added a second Command.
C14_Witness ==
    /\ lastEvent.type = "mousedown"
    /\ prev.displayList # <<>>
    /\ currentTool = THICK

\* C15: selecting a tool, Idle or Drawing, leaves the Display List, the Redo
\* Stack, the Current Command, every existing Command and the Idle/Drawing state
\* unchanged; a Command being dragged keeps what it was created with.
C15_SelectToolFrame ==
    [][ lastEvent'.type = "selectTool" =>
            UNCHANGED <<displayList, redoStack, currentCommand, heap, isDrawing>> ]_vars

\* A sticker tool was selected while a stroke was being dragged.
C15_Witness ==
    /\ lastEvent.type = "selectTool"
    /\ isDrawing
    /\ currentCommand # NULL
    /\ heap[currentCommand].kind = "marker"
    /\ currentTool.kind = "sticker"

\* C16: once a pointer-up has ended a Command's drag its content never changes
\* again: the pointer-up leaves no Current Command, a Command that is not the
\* Current Command never becomes it, and no event changes the content of a
\* Command that is not the Current Command (until it is destroyed).
C16_FrozenAfterPointerUp ==
    [][ /\ lastEvent'.type = "mouseup" => currentCommand' = NULL
        /\ \A i \in 1..Len(heap) :
               i # currentCommand =>
                   /\ currentCommand' # i
                   /\ heap'[i] = heap[i] \/ heap'[i] = Collected ]_vars

\* After the pointer-up that ended the drag of the newest Command, which is still
\* in the Display List behind an older one, a redo relocated a Command.
C16_Witness ==
    /\ strokeEnded
    /\ lastEvent.type = "redo"
    /\ prev.redoStack # <<>>
    /\ Len(displayList) = 2

\* The Redo Stack read from its top to its bottom.
RECURSIVE Reverse(_)
Reverse(q) == IF q = <<>> THEN <<>> ELSE Append(Reverse(Tail(q)), Head(q))

\* C17: undo() and redo() only relocate Commands: the Display List followed by
\* the Redo Stack read from top to bottom is the same sequence before and after,
\* and the content of every Command is unchanged.
C17_UndoRedoRelocateOnly ==
    [][ lastEvent'.type \in {"undo", "redo"} =>
            /\ displayList' \o Reverse(redoStack') = displayList \o Reverse(redoStack)
            /\ heap' = heap ]_vars

\* An undo moved a Command onto a Redo Stack that held one, a dragged stroke
\* among them.
C17_Witness ==
    /\ lastEvent.type = "undo"
    /\ prev.displayList # <<>>
    /\ Len(redoStack) = 2
    /\ \E i \in Range(redoStack) :
           heap[i].kind = "marker" /\ Len(heap[i].points) = 2

\* The draw call each Command of the Display List issues with its current
\* content: a poly-line through its points in its width, or its glyph at its
\* position.
MarkOf(cmd) ==
    IF cmd.kind = "marker"
    THEN [op |-> "stroke", path |-> cmd.points, lineWidth |-> cmd.thickness,
          strokeStyle |-> "#00449f"]
    ELSE [op |-> "fillText", text |-> cmd.emoji, at |-> cmd.pos,
          font |-> cmd.fontSize, alpha |-> 100]

\* C18: after every listener the Commands painted in the most recent frame are
\* the Commands of the Display List, in its order, with their current content.
C18_FrameShowsDisplayList ==
    frame.marks = [i \in 1..Len(displayList) |-> MarkOf(heap[displayList[i]])]

\* A redo has put a second Command back and the frame shows both.
C18_Witness ==
    /\ lastEvent.type = "redo"
    /\ prev.redoStack # <<>>
    /\ Len(displayList) = 2
    /\ Len(frame.marks) = 2

\* No Preview position is recorded and the painted frame holds no ghost.
NoGhostOutside == previewPos = NoPos /\ frame.ghost = <<>>

\* C19: from a pointer-leave until the next pointer-move on the surface no
\* painted frame holds a Preview ghost: the leave paints a frame without one,
\* and no tool selection, undo, redo, clear, pointer-down or pointer-up brings
\* one back.
C19_NoGhostAfterLeave ==
    [][ /\ lastEvent'.type = "mouseleave" => NoGhostOutside'
        /\ (NoGhostOutside /\ lastEvent'.type # "mousemove") => NoGhostOutside' ]_vars

\* After a pointer-leave in the Idle state (no tool selected since: there is no
\* Preview object) an undo has repainted the canvas.
C19_Witness ==
    /\ preview = NoPreview
    /\ ~isDrawing
    /\ lastEvent.type = "undo"
    /\ prev.displayList # <<>>

\* C20: whenever a Preview object exists it is the one built from the currently
\* selected tool: a marker preview of radius thickness/2 (at least 1), or a
\* sticker preview with the tool's emoji and size.
C20_PreviewMatchesTool ==
    preview # NoPreview =>
        /\ preview.kind = currentTool.kind
        /\ IF currentTool.kind = "marker"
           THEN preview.r = (IF currentTool.thickness \div 2 < 1
                             THEN 1 ELSE currentTool.thickness \div 2)
           ELSE /\ preview.emoji = currentTool.emoji
                /\ preview.fontSize = currentTool.size

\* A tool change from a marker to the sticker was followed by a pointer-move.
C20_Witness ==
    /\ preview # NoPreview
    /\ previewPos # NoPos
    /\ currentTool.kind = "sticker"

\* C21: a pointer-move in the Idle state changes only the Preview and the
\* painted frame: the Display List, the Redo Stack, the Current Command, the
\* selected tool, the Idle state and every Command are unchanged; a pointer-up in
\* the Idle state changes nothing of the program's state.
C21_IdleMoveAndUpFrame ==
    [][ /\ (lastEvent'.type = "mousemove" /\ ~isDrawing) =>
               UNCHANGED <<displayList, redoStack, currentCommand, currentTool,
                           isDrawing, heap, nextId, undoDisabled, redoDisabled>>
        /\ (lastEvent'.type = "mouseup" /\ ~isDrawing) =>
               UNCHANGED <<displayList, redoStack, currentCommand, currentTool,
                           isDrawing, heap, nextId, undoDisabled, redoDisabled,
                           preview, frame>> ]_vars

\* A pointer-move in the Idle state, with Commands in both arrays, has put the
\* ghost at its point.
C21_Witness ==
    /\ lastEvent.type = "mousemove"
    /\ ~prev.isDrawing
    /\ displayList # <<>>
    /\ redoStack # <<>>
    /\ frame.ghost # <<>>

\* C22: the Display List followed by the Redo Stack read from top to bottom
\* lists Commands in strictly increasing order of creation, so no Command is
\* listed twice or is in both arrays.
C22_HistoryInCreationOrder ==
    LET h == displayList \o Reverse(redoStack)
    IN  \A i, j \in 1..Len(h) : i < j => h[i] < h[j]

\* Two undos have put both Commands on the Redo Stack, the older on top.
C22_Witness ==
    /\ lastEvent.type = "undo"
    /\ Len(redoStack) = 2
    /\ Last(redoStack) < Head(redoStack)

====
